---- MODULE Spec2Model ----
(***************************************************************************)
(* Booking deduplication (BookingsApi.getBookingsNew /                     *)
(* BookingsApi.deduplicateBookings) and workout assembly                   *)
(* (WorkoutsApi.getWorkouts) of otf-api-ts.                                *)
(*                                                                         *)
(* Encoding of values.                                                     *)
(*  - A date string is an integer: NullStr is null / '' (falsy), Garbage   *)
(*    is a non-empty string that Date cannot parse (getTime() is NaN), and *)
(*    t >= 0 is the ISO string of the instant t seconds after the epoch    *)
(*    (0 is the epoch itself).                                             *)
(*  - A class id is a natural number: 0 is null (no class identity), k > 0 *)
(*    is the k-th class.                                                   *)
(*  - otf_class.starts_at is NullStr or a parsable date after the epoch:   *)
(*    an unparsable start time makes the comparator of the first sort      *)
(*    inconsistent (NaN compares false both ways) and is outside the       *)
(*    domain of the model.                                                 *)
(***************************************************************************)
EXTENDS Integers, Sequences, FiniteSets, TLC

VARIABLES
  bookings,   \* the bookings of the server's response, transformed
  result,     \* what getBookingsNew returned
  pc,         \* where the call is
  wired,      \* WorkoutsApi.otfInstance.bookings: "none" when it is not set,
              \* "BookingsApi" for the library's own, "stub" for another object
              \* given to setOtfInstance
  now,        \* new Date() of getWorkouts
  psFetch,    \* the performance-summary fetches, one per requested id
  telFetch,   \* the telemetry fetches, one per requested id
  mapFetch,   \* the class-uuid mapping fetch
  psOrder,    \* the order in which the performance-summary fetches settled
  workouts,   \* what getWorkouts returned
  log,        \* console.warn / console.error of getWorkouts and getBookingsForWorkouts
  thrown,     \* the error the call rejected with, "none" if it has not
  call,       \* the call of a helper or of rateClassFromWorkout: its
              \* arguments, and what it returned once it has
  rateRequests \* the requests sent to bookings.rateClass, in order

vars == <<bookings, result, pc, wired, now, psFetch, telFetch, mapFetch, psOrder,
          workouts, log, thrown, call, rateRequests>>

\* ---------------------------------------------------------------- bounds
MaxBookings == 3
NumClasses == 3
MaxFetched == 2
MaxSamples == 2
MaxRatings == 1

\* ------------------------------------------------------- value encodings
NullStr == -1
Garbage == -2
Infinity == 1000000

\* the number that new Date(s).getTime() is when s does not parse
NaN == 2000000

\* the null of a rating, which is not undefined
Null == -4
\* undefined / null where the value is a number otherwise
Undefined == -1
\* the literal 'unknown' where the value is an identifier otherwise
Unknown == -3

\* ------------------------------------------------ src/unnamed/part_001

\* getBookingStatusPriority, part_001:29-48
getBookingStatusPriority(status) ==
  CASE status = "Booked" -> 0
    [] status = "Confirmed" -> 1
    [] status = "Waitlisted" -> 2
    [] status = "Pending" -> 3
    [] status = "Requested" -> 4
    [] status = "Checked In" -> 5
    [] status = "Checkin Pending" -> 6
    [] status = "Checkin Requested" -> 7
    [] status = "Checkin Cancelled" -> 8
    [] status = "Cancelled" -> 9
    [] status = "Late Cancelled" -> 10
    [] status = "Cancel Checkin Pending" -> 11
    [] status = "Cancel Checkin Requested" -> 12
    [] OTHER -> 999

\* safeTimestamp, part_001:57-67
safeTimestamp(dateStr) ==
  IF dateStr = NullStr THEN Infinity
  ELSE IF dateStr = Garbage THEN Infinity
  ELSE IF dateStr = 0 THEN Infinity
  ELSE dateStr

\* getBookingSortKey with created_at compared before updated_at
sortKeyCreatedFirst(booking) ==
  LET startsAt == IF booking.otf_class.starts_at # NullStr
                  THEN booking.otf_class.starts_at ELSE 0
  IN <<startsAt, 0 - safeTimestamp(booking.created_at),
       0 - safeTimestamp(booking.updated_at),
       getBookingStatusPriority(booking.status)>>

\* getBookingSortKey with the status rank compared before the timestamps
sortKeyStatusFirst(booking) ==
  LET startsAt == IF booking.otf_class.starts_at # NullStr
                  THEN booking.otf_class.starts_at ELSE 0
  IN <<startsAt, getBookingStatusPriority(booking.status),
       0 - safeTimestamp(booking.updated_at),
       0 - safeTimestamp(booking.created_at)>>

\* getBookingSortKey, part_001:76-87
\* getBookingSortKey without the status priority
sortKeyNoStatus(booking) ==
  LET startsAt == IF booking.otf_class.starts_at # NullStr
                  THEN booking.otf_class.starts_at ELSE 0
      updatedAt == 0 - safeTimestamp(booking.updated_at)
      createdAt == 0 - safeTimestamp(booking.created_at)
  IN <<startsAt, updatedAt, createdAt>>

getBookingSortKey(booking) ==
  LET startsAt == IF booking.otf_class.starts_at = NullStr THEN 0
                  ELSE IF booking.otf_class.starts_at = Garbage THEN NaN
                  ELSE booking.otf_class.starts_at
      updatedAt == 0 - safeTimestamp(booking.updated_at)
      createdAt == 0 - safeTimestamp(booking.created_at)
      statusPriority == getBookingStatusPriority(booking.status)
  IN <<startsAt, updatedAt, createdAt, statusPriority>>

\* the comparator of classBookings.sort, part_001:291-301
RECURSIVE compareKeysFrom(_, _, _)
compareKeysFrom(aKey, bKey, i) ==
  IF i > Len(aKey) THEN 0
  ELSE IF aKey[i] = NaN \/ bKey[i] = NaN THEN compareKeysFrom(aKey, bKey, i + 1)
  ELSE IF aKey[i] < bKey[i] THEN -1
  ELSE IF aKey[i] > bKey[i] THEN 1
  ELSE compareKeysFrom(aKey, bKey, i + 1)

compareBySortKey(a, b) ==
  compareKeysFrom(getBookingSortKey(a), getBookingSortKey(b), 1)

\* compareByStartsAt with a missing start time sorting first
compareMissingFirst(a, b) ==
  LET aStartTime == a.otf_class.starts_at
      bStartTime == b.otf_class.starts_at
  IN IF aStartTime = NullStr /\ bStartTime = NullStr THEN 0
     ELSE IF aStartTime = NullStr THEN -1
     ELSE IF bStartTime = NullStr THEN 1
     ELSE aStartTime - bStartTime

\* the comparator of keepBookings.sort, part_001:314-323; with a start time
\* that does not parse the difference is NaN, which sort takes for 0
compareByStartsAt(a, b) ==
  LET aStartTime == a.otf_class.starts_at
      bStartTime == b.otf_class.starts_at
  IN IF aStartTime = NullStr /\ bStartTime = NullStr THEN 0
     ELSE IF aStartTime = NullStr THEN 1
     ELSE IF bStartTime = NullStr THEN -1
     ELSE IF aStartTime = Garbage \/ bStartTime = Garbage THEN 0
     ELSE aStartTime - bStartTime

\* the call of a sort's comparator: "sortKey" is the one of part_001:291-301,
\* "startsAt" the one of part_001:314-323
compareWith(cmp, a, b) ==
  IF cmp = "sortKey" THEN compareBySortKey(a, b) ELSE compareByStartsAt(a, b)

\* insertSorted of a sort that is not stable: x goes before its equals
RECURSIVE insertBeforeEqual(_, _, _)
insertBeforeEqual(x, sorted, cmp) ==
  IF sorted = <<>> THEN <<x>>
  ELSE IF compareWith(cmp, x, Head(sorted)) <= 0 THEN <<x>> \o sorted
  ELSE <<Head(sorted)>> \o insertBeforeEqual(x, Tail(sorted), cmp)

\* Array.prototype.sort: a stable sort (ES2019), here by insertion.
\* insertSorted puts x behind every element that does not compare greater.
RECURSIVE insertSorted(_, _, _)
insertSorted(x, sorted, cmp) ==
  IF sorted = <<>> THEN <<x>>
  ELSE IF compareWith(cmp, x, Head(sorted)) < 0 THEN <<x>> \o sorted
  ELSE <<Head(sorted)>> \o insertSorted(x, Tail(sorted), cmp)

RECURSIVE sortFrom(_, _, _, _)
sortFrom(arr, i, sorted, cmp) ==
  IF i > Len(arr) THEN sorted
  ELSE sortFrom(arr, i + 1, insertSorted(arr[i], sorted, cmp), cmp)

sort(arr, cmp) == sortFrom(arr, 1, <<>>, cmp)

\* classIdsFrom without the skip of bookings that have no class_id
RECURSIVE classIdsNoSkip(_, _, _)
classIdsNoSkip(bks, i, seen) ==
  IF i > Len(bks) THEN seen
  ELSE LET classId == bks[i].otf_class.class_id
       IN IF \E k \in 1..Len(seen) : seen[k] = classId
          THEN classIdsNoSkip(bks, i + 1, seen)
          ELSE classIdsNoSkip(bks, i + 1, Append(seen, classId))

\* the keys of classesByID in insertion order, part_001:271-281
RECURSIVE classIdsFrom(_, _, _)
classIdsFrom(bks, i, seen) ==
  IF i > Len(bks) THEN seen
  ELSE LET classId == bks[i].otf_class.class_id
       IN IF classId = 0 THEN classIdsFrom(bks, i + 1, seen)
          ELSE IF \E k \in 1..Len(seen) : seen[k] = classId
               THEN classIdsFrom(bks, i + 1, seen)
               ELSE classIdsFrom(bks, i + 1, Append(seen, classId))

\* classBookingsOf with every booking pushed to every class
classBookingsOfAll(bks, classId) == bks

\* classesByID.get(classId), part_001:273-281
classBookingsOf(bks, classId) ==
  SelectSeq(bks, LAMBDA b : b.otf_class.class_id = classId)

\* keepOf taking the last booking of the sorted group
keepLastOf(classBookings) ==
  IF Len(classBookings) = 1 THEN classBookings[1]
  ELSE sort(classBookings, "sortKey")[Len(classBookings)]

\* the booking kept for one class, part_001:286-305
keepOf(classBookings) ==
  IF Len(classBookings) = 1 THEN classBookings[1]
  ELSE sort(classBookings, "sortKey")[1]

\* deduplicateBookings, part_001:267-326
deduplicateBookings(bks) ==
  LET ids == classIdsFrom(bks, 1, <<>>)
      keepBookings == [k \in 1..Len(ids) |-> keepOf(classBookingsOf(bks, ids[k]))]
  IN sort(keepBookings, "startsAt")

\* ------------------------------------------------------------- inputs

\* a booking as transformBookingData builds it, part_001:184-258
\* workout.exists is FALSE for workout: null; performance_summary_id 0 is '';
\* exists is FALSE for a list element that is null, otf_class.exists is FALSE
\* for a booking without otf_class: transformBookingData builds neither
BookingV2(id, classId, startsAt, updatedAt, createdAt, status, perfId) ==
  [exists |-> TRUE,
   booking_id |-> id,
   status |-> status,
   otf_class |-> [exists |-> TRUE, class_id |-> classId, starts_at |-> startsAt],
   workout |-> [exists |-> perfId # 0, performance_summary_id |-> perfId],
   created_at |-> createdAt,
   updated_at |-> updatedAt]

\* response.items.map(transformBookingData), part_001:174
transformAll(items) ==
  [i \in 1..Len(items) |->
     BookingV2(i, items[i][1], items[i][2], items[i][3], items[i][4], items[i][5],
               IF items[i][6] THEN i ELSE 0)]

\* The items of a response: <<class id, starts_at, updated_at, created_at, status,
\* has a workout>>; the workout of the i-th item has the identifier i.
\* GroupItems vary the class identity and the start time (grouping and final
\* order); KeyItems are the duplicates of one class and vary the four parts of
\* the sort key; StatusItems are duplicates with one start time and valid
\* timestamps, over every status of the table and one that is not in it.
GroupItems ==
  {<<c, s, u, 1, "Booked", FALSE>> : c \in 0..NumClasses, s \in {NullStr, 1, 2},
                              u \in {Garbage, 1}}

KeyItems ==
  {<<1, s, u, k, st, FALSE>> : s \in {NullStr, 1}, u \in {NullStr, 1, 2}, k \in {1, 2},
                        st \in {"Booked", "Unlisted"}}

BookingStatus ==
  {"Booked", "Confirmed", "Waitlisted", "Pending", "Requested", "Checked In",
   "Checkin Pending", "Checkin Requested", "Checkin Cancelled", "Cancelled",
   "Late Cancelled", "Cancel Checkin Pending", "Cancel Checkin Requested"}

StatusItems ==
  {<<1, 1, u, 1, st, FALSE>> : u \in {1, 2}, st \in BookingStatus \cup {"Unlisted"}}

\* ------------------------------------------------------------- actions
\* no helper and no rateClassFromWorkout has been called
NoCall == [fn |-> "none"]

InitWith(Items) ==
  /\ \E n \in 0..MaxBookings : \E items \in [1..n -> Items] :
        bookings = transformAll(items)
  /\ result = <<>>
  /\ pc = "idle"
  /\ wired = "none"
  /\ now = 0
  /\ psFetch = <<>>
  /\ telFetch = <<>>
  /\ mapFetch = [settled |-> FALSE, rejected |-> FALSE]
  /\ psOrder = <<>>
  /\ workouts = <<>>
  /\ log = <<>>
  /\ thrown = "none"
  /\ call = NoCall
  /\ rateRequests = <<>>

Init == InitWith(GroupItems)

InitKey == InitWith(KeyItems)

InitStatus == InitWith(StatusItems)

\* getBookingsNew, part_001:156-182
GetBookingsNew(removeDuplicates) ==
  /\ pc = "idle"
  /\ result' = IF removeDuplicates THEN deduplicateBookings(bookings) ELSE bookings
  /\ pc' = IF removeDuplicates THEN "deduplicated" ELSE "raw"
  /\ UNCHANGED <<call, rateRequests>>
  /\ UNCHANGED <<bookings, wired, now, psFetch, telFetch, mapFetch, psOrder, workouts,
               log, thrown>>

Next ==
  \/ GetBookingsNew(TRUE)
  \/ GetBookingsNew(FALSE)

Spec == Init /\ [][Next]_vars

SpecKey == InitKey /\ [][Next]_vars

SpecStatus == InitStatus /\ [][Next]_vars

\* ------------------------------- src/scripts/update-python-version.js

\* null, and the empty object {} getWorkouts falls back to (line 771)
\* a heart-rate block that is null or undefined, and the block of a summary
\* the server sent: max_hr is left out of it, peak_hr is there
NullHeartRate ==
  [isNull |-> TRUE, max_hr |-> Undefined, peak_hr |-> Undefined,
   avg_hr |-> Undefined, peak_hr_percent |-> Undefined,
   avg_hr_percent |-> Undefined]

HeartRate(maxHr, peakHr, avgHr) ==
  [isNull |-> FALSE, max_hr |-> maxHr, peak_hr |-> peakHr, avg_hr |-> avgHr,
   peak_hr_percent |-> 95, avg_hr_percent |-> 77]

NullSummary ==
  [isNull |-> TRUE, performance_summary_id |-> 0, calories_burned |-> Undefined,
   heart_rate |-> NullHeartRate]

EmptySummary ==
  [isNull |-> FALSE, performance_summary_id |-> 0, calories_burned |-> Undefined,
   heart_rate |-> NullHeartRate]

\* max_hr is the key getTelemetry writes (line 533), maxHr the key
\* enhanceHeartRateWithTelemetry reads (line 903)
NullTelemetry ==
  [isNull |-> TRUE, isArray |-> FALSE, hasArray |-> FALSE,
   classHistoryUuid |-> 0, class_history_uuid |-> 0,
   max_hr |-> Undefined, maxHr |-> Undefined,
   badStamp |-> FALSE, telemetry |-> <<>>]

\* a telemetry object: isArray, it is the array of samples itself; hasArray,
\* it is or has such an array; classHistoryUuid is the key of the server's
\* response, class_history_uuid the key of the library's objects (0: the key
\* is not there); telemetry is the array of samples
Telemetry(kind, uuid, maxHr, samples) ==
  [isNull |-> FALSE, isArray |-> kind = "array",
   hasArray |-> kind \in {"array", "object"},
   classHistoryUuid |-> IF kind = "array" THEN 0 ELSE uuid,
   class_history_uuid |-> 0,
   max_hr |-> Undefined, maxHr |-> IF kind = "array" THEN Undefined ELSE maxHr,
   badStamp |-> FALSE, telemetry |-> samples]

\* a sample of a telemetry array (Undefined: the key is not there)
Sample(relativeTimestamp, heartRate) ==
  [relative_timestamp |-> relativeTimestamp, heart_rate |-> heartRate,
   timestamp |-> Undefined]

\* what the server answers to a request: the request throws, or it carries
\* the calories of the summary (details.calories_burned || 0) or the observed
\* maximum heart rate (response.maxHr || 0); badStamp: an item of
\* response.telemetry has a relative_timestamp that is no number of seconds
\* a Date can hold
PerfResponses == {[throws |-> TRUE, calories |-> 0]} \cup
                 {[throws |-> FALSE, calories |-> c] : c \in {99, 100}}

TelemetryResponses ==
  {[throws |-> TRUE, maxHr |-> 0, badStamp |-> FALSE]} \cup
  {[throws |-> FALSE, maxHr |-> 190, badStamp |-> b] : b \in BOOLEAN}

MappingResponses == {[throws |-> TRUE], [throws |-> FALSE]}

\* getPerformanceSummary, lines 413-463: the try/catch turns a failed request
\* into null
getPerformanceSummary(performanceSummaryId, response) ==
  IF response.throws
  THEN [rejected |-> FALSE, data |-> NullSummary]
  ELSE [rejected |-> FALSE,
        data |-> [isNull |-> FALSE,
                  performance_summary_id |-> performanceSummaryId,
                  calories_burned |-> response.calories,
                  heart_rate |-> HeartRate(Undefined, 185, 150)]]

\* getTelemetry, lines 495-540: a failed request rejects
getTelemetry(performanceSummaryId, response) ==
  IF response.throws
  THEN [rejected |-> TRUE, data |-> NullTelemetry]
  ELSE [rejected |-> FALSE,
        data |-> [isNull |-> FALSE, isArray |-> FALSE, hasArray |-> TRUE,
                  classHistoryUuid |-> 0,
                  class_history_uuid |-> performanceSummaryId,
                  max_hr |-> response.maxHr, maxHr |-> Undefined,
                  badStamp |-> response.badStamp, telemetry |-> <<>>]]

\* one promise of getPerformanceSummariesConcurrent, lines 635-640
perfSummaryTask(id, response) ==
  LET p == getPerformanceSummary(id, response)
  IN IF p.rejected THEN [rejected |-> FALSE, data |-> NullSummary] ELSE p

\* one promise of getTelemetryConcurrent, lines 654-659
telemetryTask(id, response) ==
  LET p == getTelemetry(id, response)
  IN IF p.rejected THEN [rejected |-> FALSE, data |-> NullTelemetry] ELSE p

\* summariesOf without the test data !== null
summariesWithNulls(ids, fetches) ==
  LET of(id) == {k \in 1..Len(ids) : ids[k] = id}
      last(S) == CHOOSE k \in S : \A j \in S : j <= k
  IN [id \in {ids[k] : k \in 1..Len(ids)} |-> fetches[last(of(id))].data]

\* summariesOf with the data joined in the order the fetches settled in: the
\* k-th identifier gets the data of the k-th fetch to settle
summariesByArrival(ids, fetches) ==
  LET arrived(k) == fetches[psOrder[k]].data
      have(id) == {k \in 1..Len(ids) : ids[k] = id /\ ~arrived(k).isNull}
      last(S) == CHOOSE k \in S : \A j \in S : j <= k
  IN [id \in {ids[k] : k \in {j \in 1..Len(ids) : ~arrived(j).isNull}} |->
        arrived(last(have(id)))]

\* the reduce of getPerformanceSummariesConcurrent, lines 644-649: the ids
\* with data, each with the data of its last fetch that has some
summariesOf(ids, fetches) ==
  LET have(id) == {k \in 1..Len(ids) : ids[k] = id /\ ~fetches[k].data.isNull}
      last(S) == CHOOSE k \in S : \A j \in S : j <= k
  IN [id \in {ids[k] : k \in {j \in 1..Len(ids) : ~fetches[j].data.isNull}} |->
        fetches[last(have(id))].data]

\* telemetryOf with the identifiers left out whose data is null
telemetryOmitting(ids, fetches) ==
  LET have(id) == {k \in 1..Len(ids) : ids[k] = id /\ ~fetches[k].data.isNull}
      last(S) == CHOOSE k \in S : \A j \in S : j <= k
  IN [id \in {ids[k] : k \in {j \in 1..Len(ids) : ~fetches[j].data.isNull}} |->
        fetches[last(have(id))].data]

\* the reduce of getTelemetryConcurrent, lines 662-665: every id, null included
telemetryOf(ids, fetches) ==
  LET of(id) == {k \in 1..Len(ids) : ids[k] = id}
      last(S) == CHOOSE k \in S : \A j \in S : j <= k
  IN [id \in {ids[k] : k \in 1..Len(ids)} |-> fetches[last(of(id))].data]

\* the class uuid the server maps a performance summary to
classUuidOf(id) == 100 + id

\* getPerformanceSummaryToClassUuidMapping, lines 610-631
getPerformanceSummaryToClassUuidMapping(ids, response) ==
  IF response.throws THEN [id \in {} |-> 0]
  ELSE [id \in {ids[k] : k \in 1..Len(ids)} |-> classUuidOf(id)]

\* the filter of pastBookings reads booking.otf_class of every element,
\* line 725: an element that is null throws a TypeError
pastBookingsThrows(bks) == \E k \in 1..Len(bks) : ~bks[k].exists

\* pastBookings with a class that starts now counted as future
pastBookingsBeforeNow(bks, t) ==
  SelectSeq(bks, LAMBDA booking :
    LET startsAt == IF booking.otf_class.exists
                    THEN booking.otf_class.starts_at ELSE NullStr
    IN IF startsAt = NullStr THEN TRUE
       ELSE IF startsAt = Garbage THEN FALSE ELSE startsAt < t)

\* pastBookings, lines 723-737: an Invalid Date compares false with now
pastBookings(bks, t) ==
  SelectSeq(bks, LAMBDA booking :
    LET startsAt == IF booking.otf_class.exists
                    THEN booking.otf_class.starts_at ELSE NullStr
    IN IF startsAt = NullStr THEN TRUE
       ELSE IF startsAt = Garbage THEN FALSE ELSE startsAt <= t)

\* bookingsList with the bookings left out that have no identifier
bookingsListWithIds(past) ==
  LET have == SelectSeq(past, LAMBDA booking : booking.workout.exists)
  IN [k \in 1..Len(have) |->
        [booking |-> have[k],
         perfSummaryId |-> have[k].workout.performance_summary_id]]

\* bookingsList, lines 743-746 (perfSummaryId 0 is null)
bookingsList(past) ==
  [k \in 1..Len(past) |->
     [booking |-> past[k],
      perfSummaryId |-> IF past[k].workout.exists
                        THEN past[k].workout.performance_summary_id ELSE 0]]

\* performanceSummaryIds, lines 750-752
RECURSIVE performanceSummaryIdsFrom(_, _)
performanceSummaryIdsFrom(list, k) ==
  IF k > Len(list) THEN <<>>
  ELSE IF list[k].perfSummaryId # 0
       THEN <<list[k].perfSummaryId>> \o performanceSummaryIdsFrom(list, k + 1)
       ELSE performanceSummaryIdsFrom(list, k + 1)

\* performanceSummaryIds without filter(Boolean)
performanceSummaryIdsUnfiltered(list) ==
  [k \in 1..Len(list) |-> list[k].perfSummaryId]

performanceSummaryIds(list) == performanceSummaryIdsFrom(list, 1)

\* perfSummary with the `|| {}` fallback left out
perfSummaryNoFallback(perfSummaryId, performanceSummaries) ==
  IF perfSummaryId # 0
  THEN IF perfSummaryId \in DOMAIN performanceSummaries
       THEN performanceSummaries[perfSummaryId] ELSE NullSummary
  ELSE EmptySummary

\* perfSummary, line 771
perfSummaryFor(perfSummaryId, performanceSummaries) ==
  IF perfSummaryId # 0
  THEN IF perfSummaryId \in DOMAIN performanceSummaries
       THEN performanceSummaries[perfSummaryId] ELSE EmptySummary
  ELSE EmptySummary

\* telemetry, line 772
telemetryFor(perfSummaryId, telemetryData) ==
  IF perfSummaryId # 0 /\ perfSummaryId \in DOMAIN telemetryData
  THEN telemetryData[perfSummaryId] ELSE NullTelemetry

\* classUuid, line 784 (0 is null)
classUuidFor(perfSummaryId, classUuidMapping) ==
  IF perfSummaryId # 0 /\ perfSummaryId \in DOMAIN classUuidMapping
  THEN classUuidMapping[perfSummaryId] ELSE 0

\* the validation of getWorkouts with no test at all
validationNone(booking) == "none"

\* the validation of getWorkouts, lines 776-781: the message of the Error
\* thrown, "none" if none is
validationError(booking) ==
  IF ~booking.exists THEN "v2_booking is required"
  ELSE IF ~booking.otf_class.exists
       THEN "otf_class must be an instance of BookingV2Class"
       ELSE "none"

\* formatDateToPythonISO with the time rounded to the nearest second
formatDateRounded(date) == (date + 500) \div 1000

\* formatDateToPythonISO, lines 254-258: the string of a time in
\* milliseconds, which is one per second of time, the milliseconds being cut
\* from Date.prototype.toISOString; a string is given as the seconds it shows
formatDateToPythonISO(date) == date \div 1000

\* enhanceTelemetryWithTimestamps, lines 937-945: the samples with their
\* timestamps, classStart in milliseconds
enhancedTelemetryArray(telemetryArray, classStart) ==
  [i \in 1..Len(telemetryArray) |->
     LET item == telemetryArray[i]
     IN IF item.relative_timestamp = Undefined THEN item
        ELSE [item EXCEPT !.timestamp =
                formatDateToPythonISO(classStart + item.relative_timestamp * 1000)]]

\* enhanceTelemetryWithTimestamps, lines 918-963; classStartTime is the time
\* the string parses to, in milliseconds, NullStr when there is no string
enhanceTelemetryWithTimestamps(telemetry, classStartTime) ==
  IF telemetry.isNull \/ classStartTime = NullStr THEN telemetry
  ELSE IF ~telemetry.hasArray THEN telemetry
  ELSE IF ~telemetry.isArray /\ telemetry.classHistoryUuid # 0
       THEN [isNull |-> FALSE, isArray |-> FALSE, hasArray |-> TRUE,
             classHistoryUuid |-> 0,
             class_history_uuid |-> telemetry.classHistoryUuid,
             max_hr |-> telemetry.maxHr, maxHr |-> Undefined,
             badStamp |-> telemetry.badStamp,
             telemetry |-> enhancedTelemetryArray(telemetry.telemetry,
                                                  classStartTime)]
       ELSE [telemetry EXCEPT
               !.telemetry = enhancedTelemetryArray(telemetry.telemetry,
                                                    classStartTime)]

\* enhanceTelemetryWithTimestamps throws a RangeError, lines 941-942 and 257:
\* toISOString of an Invalid Date, which the time of a sample is when the
\* class start time does not parse (Garbage) or the relative_timestamp is no
\* number of seconds a Date can hold (NaN; badStamp says that a sample not
\* listed in telemetry has such a one)
timestampsThrow(telemetry, classStartTime) ==
  /\ ~telemetry.isNull
  /\ classStartTime # NullStr
  /\ telemetry.hasArray
  /\ \/ telemetry.badStamp
     \/ \E i \in 1..Len(telemetry.telemetry) :
          /\ telemetry.telemetry[i].relative_timestamp # Undefined
          /\ \/ classStartTime = Garbage
             \/ telemetry.telemetry[i].relative_timestamp = NaN

\* booking.otf_class?.starts_at, line 881
startsAtOf(booking) ==
  IF booking.otf_class.exists THEN booking.otf_class.starts_at ELSE NullStr

\* what assembleWorkout throws, "none" if it returns: a TypeError when it
\* reads a property of a null performance summary (line 851) or of a null
\* booking (line 853), a RangeError when enhanceTelemetryWithTimestamps
\* (lines 918-963, called at line 881) formats a telemetry item's time that
\* is an Invalid Date (Date.prototype.toISOString, line 257)
assembleError(booking, performanceSummary, telemetry) ==
  IF performanceSummary.isNull \/ ~booking.exists THEN "TypeError"
  ELSE IF timestampsThrow(telemetry, startsAtOf(booking))
       THEN "RangeError"
       ELSE "none"

assembleThrows(booking, performanceSummary, telemetry) ==
  assembleError(booking, performanceSummary, telemetry) # "none"

\* enhanceHeartRateWithTelemetry with the maximum of the summary kept when
\* it has one
enhanceOnlyMissingMax(heartRate, telemetry) ==
  IF heartRate.isNull THEN heartRate
  ELSE IF /\ ~telemetry.isNull
          /\ telemetry.maxHr # Undefined /\ telemetry.maxHr # 0
          /\ heartRate.max_hr = Undefined
       THEN [heartRate EXCEPT !.max_hr = telemetry.maxHr]
       ELSE heartRate

\* enhanceHeartRateWithTelemetry, lines 894-908: what it returns
enhanceHeartRateWithTelemetry(heartRate, telemetry) ==
  IF heartRate.isNull THEN heartRate
  ELSE IF /\ ~telemetry.isNull
          /\ telemetry.maxHr # Undefined /\ telemetry.maxHr # 0
       THEN [heartRate EXCEPT !.max_hr = telemetry.maxHr]
       ELSE heartRate

\* enhanceHeartRateWithTelemetry, line 898: the block it was given, after the
\* call; the function writes to a copy
heartRateAfterEnhance(heartRate, telemetry) == heartRate

\* assembleWorkout without the 'unknown' placeholder
assembleNoPlaceholder(booking, performanceSummary, telemetry, classUuid) ==
  LET id == IF performanceSummary.performance_summary_id # 0
            THEN performanceSummary.performance_summary_id
            ELSE IF booking.workout.exists
                 THEN booking.workout.performance_summary_id
                 ELSE 0
  IN [performance_summary_id |-> id,
      class_history_uuid |-> id,
      booking_id |-> booking.booking_id,
      class_uuid |-> IF classUuid # 0 THEN classUuid ELSE Undefined,
      calories_burned |-> performanceSummary.calories_burned,
      heart_rate |-> enhanceHeartRateWithTelemetry(
                       performanceSummary.heart_rate, telemetry),
      otf_class |-> booking.otf_class,
      telemetry |-> enhanceTelemetryWithTimestamps(telemetry, startsAtOf(booking))]

\* assembleWorkout, lines 848-883 (class_uuid Undefined is undefined)
assembleWorkout(booking, performanceSummary, telemetry, classUuid) ==
  LET id == IF performanceSummary.performance_summary_id # 0
            THEN performanceSummary.performance_summary_id
            ELSE IF booking.workout.exists /\ booking.workout.performance_summary_id # 0
                 THEN booking.workout.performance_summary_id
                 ELSE Unknown
  IN [performance_summary_id |-> id,
      class_history_uuid |-> id,
      booking_id |-> booking.booking_id,
      class_uuid |-> IF classUuid # 0 THEN classUuid ELSE Undefined,
      calories_burned |-> performanceSummary.calories_burned,
      heart_rate |-> enhanceHeartRateWithTelemetry(
                       performanceSummary.heart_rate, telemetry),
      otf_class |-> booking.otf_class,
      telemetry |-> enhanceTelemetryWithTimestamps(telemetry, startsAtOf(booking))]

\* the calorie filter with the test left out
keepsEveryWorkout(workout) == FALSE

\* the calorie filter, line 788
isInvalidWorkout(workout) ==
  workout.calories_burned # Undefined /\ workout.calories_burned < 100

\* the workout assembled for one item of bookingsList, line 785
workoutOf(item, performanceSummaries, telemetryData, classUuidMapping) ==
  assembleWorkout(item.booking,
                  perfSummaryFor(item.perfSummaryId, performanceSummaries),
                  telemetryFor(item.perfSummaryId, telemetryData),
                  classUuidFor(item.perfSummaryId, classUuidMapping))

\* the error the try block of the loop throws for one item, lines 769-793,
\* "none" if it throws none
caughtError(item, performanceSummaries, telemetryData) ==
  IF validationError(item.booking) # "none" THEN validationError(item.booking)
  ELSE assembleError(item.booking,
                     perfSummaryFor(item.perfSummaryId, performanceSummaries),
                     telemetryFor(item.perfSummaryId, telemetryData))

\* the assembly loop with workouts.unshift in place of workouts.push
RECURSIVE workoutsPrepended(_, _, _, _, _, _)
workoutsPrepended(list, k, acc, performanceSummaries, telemetryData, classUuidMapping) ==
  IF k > Len(list) THEN acc
  ELSE
    LET workout == workoutOf(list[k], performanceSummaries, telemetryData,
                             classUuidMapping)
        next == IF caughtError(list[k], performanceSummaries, telemetryData) # "none"
                THEN acc
                ELSE IF isInvalidWorkout(workout) THEN acc
                ELSE <<workout>> \o acc
    IN workoutsPrepended(list, k + 1, next, performanceSummaries, telemetryData,
                         classUuidMapping)

\* the assembly loop, lines 766-800: the workouts pushed
RECURSIVE workoutsFrom(_, _, _, _, _, _)
workoutsFrom(list, k, acc, performanceSummaries, telemetryData, classUuidMapping) ==
  IF k > Len(list) THEN acc
  ELSE
    LET workout == workoutOf(list[k], performanceSummaries, telemetryData,
                             classUuidMapping)
        next == IF caughtError(list[k], performanceSummaries, telemetryData) # "none"
                THEN acc
                ELSE IF isInvalidWorkout(workout) THEN acc
                ELSE Append(acc, workout)
    IN workoutsFrom(list, k + 1, next, performanceSummaries, telemetryData,
                    classUuidMapping)

\* the assembly loop, lines 794-799: the warnings of its catch
RECURSIVE warningsFrom(_, _, _, _)
warningsFrom(list, k, performanceSummaries, telemetryData) ==
  IF k > Len(list) THEN <<>>
  ELSE
    LET error == caughtError(list[k], performanceSummaries, telemetryData)
        rest == warningsFrom(list, k + 1, performanceSummaries, telemetryData)
    IN IF error # "none"
       THEN <<[msg |-> "Failed to create Workout", error |-> error]>> \o rest
       ELSE rest

NoMapping == [id \in {} |-> 0]

\* the candidates of the call in flight
Candidates == bookingsList(pastBookings(result, now))

RequestedIds == performanceSummaryIds(Candidates)

Pending == [settled |-> FALSE, rejected |-> FALSE]

\* the request one identifier of the list is mapped to, lines 635 and 654
Request(id) == [settled |-> FALSE, rejected |-> FALSE, id |-> id]

\* the items of a response to getWorkouts' booking request: the class start
\* is absent, now or later than now
WorkoutItems ==
  {<<c, s, 1, 1, "Booked", w>> : c \in {1, 2}, s \in {NullStr, 2, 3},
                                 w \in BOOLEAN}

NowTimes == {2}

InitWorkouts ==
  /\ \E n \in 0..MaxFetched : \E items \in [1..n -> WorkoutItems] :
        bookings = transformAll(items)
  /\ result = <<>>
  /\ pc = "idle"
  /\ wired \in {"none", "BookingsApi"}
  /\ now = 0
  /\ psFetch = <<>>
  /\ telFetch = <<>>
  /\ mapFetch = Pending
  /\ psOrder = <<>>
  /\ workouts = <<>>
  /\ log = <<>>
  /\ thrown = "none"
  /\ call = NoCall
  /\ rateRequests = <<>>

\* a console.warn or console.error and the error it prints
Logged(msg, error) == [msg |-> msg, error |-> error]

\* getWorkouts up to its first await, lines 684-718, and getBookingsForWorkouts
\* without the bookings collaborator, lines 822-825
GetWorkouts ==
  /\ pc = "idle"
  /\ IF wired # "none"
     THEN /\ pc' = "bookings"
          /\ UNCHANGED <<result, now, workouts, log>>
     ELSE /\ result' = <<>>
          /\ now' \in NowTimes
          /\ workouts' = <<>>
          /\ log' = Append(log, Logged("BookingsApi not available", "none"))
          /\ pc' = "resolved"
  /\ UNCHANGED <<call, rateRequests>>
  /\ UNCHANGED <<bookings, wired, psFetch, telFetch, mapFetch, psOrder, thrown>>

\* what the collaborator's getBookingsNew resolves to, line 828: the
\* library's BookingsApi deduplicates (removeDuplicates is true), another
\* object returns its list as it is
getBookingsNew(bks) ==
  IF wired = "stub" THEN bks ELSE deduplicateBookings(bks)

\* getBookingsForWorkouts with its catch left out
bookingsWithoutCatch(ok) ==
  IF ok THEN [rejected |-> FALSE, value |-> getBookingsNew(bookings)]
  ELSE [rejected |-> TRUE, value |-> <<>>]

\* getBookingsForWorkouts with the collaborator, lines 827-837: the promise
\* it returns when the collaborator's resolves (ok) or rejects
getBookingsForWorkouts(ok) ==
  IF ok THEN [rejected |-> FALSE, value |-> getBookingsNew(bookings)]
  ELSE [rejected |-> FALSE, value |-> <<>>]

\* the booking request settles: getBookingsForWorkouts, lines 827-837, then
\* getWorkouts up to the fan-out, lines 718-762; without identifiers the
\* assembly loop runs at once, lines 762-803; a throw of the filter is
\* logged and rethrown, lines 804-810
BookingsSettle(ok, t) ==
  /\ pc = "bookings"
  /\ result' = getBookingsForWorkouts(ok).value
  /\ now' = t
  /\ LET warned == IF ok THEN log
                   ELSE Append(log, Logged("Failed to get bookings for workouts",
                                           "FetchError"))
         list == bookingsList(pastBookings(result', t))
         ids == performanceSummaryIds(list)
     IN IF getBookingsForWorkouts(ok).rejected
        THEN /\ pc' = "rejected"
             /\ thrown' = "FetchError"
             /\ log' = Append(warned, Logged("getWorkouts error", "FetchError"))
             /\ UNCHANGED <<psFetch, telFetch, mapFetch, workouts>>
        ELSE IF pastBookingsThrows(result')
        THEN /\ pc' = "rejected"
             /\ thrown' = "TypeError"
             /\ log' = Append(warned, Logged("getWorkouts error", "TypeError"))
             /\ UNCHANGED <<psFetch, telFetch, mapFetch, workouts>>
        ELSE IF Len(ids) > 0
        THEN /\ psFetch' = [k \in 1..Len(ids) |-> Request(ids[k])]
             /\ telFetch' = [k \in 1..Len(ids) |-> Request(ids[k])]
             /\ mapFetch' = Pending
             /\ pc' = "fanout"
             /\ log' = warned
             /\ UNCHANGED <<workouts, thrown>>
        ELSE /\ workouts' = workoutsFrom(list, 1, <<>>, NoMapping, NoMapping, NoMapping)
             /\ log' = warned \o warningsFrom(list, 1, NoMapping, NoMapping)
             /\ pc' = "resolved"
             /\ UNCHANGED <<psFetch, telFetch, mapFetch, thrown>>
  /\ UNCHANGED <<call, rateRequests>>
  /\ UNCHANGED <<bookings, wired, psOrder>>

\* one performance-summary request settles, lines 635-640
PerfSummarySettle(k, response) ==
  /\ pc = "fanout"
  /\ k \in 1..Len(psFetch)
  /\ ~psFetch[k].settled
  /\ LET p == perfSummaryTask(psFetch[k].id, response)
     IN psFetch' = [psFetch EXCEPT ![k] =
                      [settled |-> TRUE, rejected |-> p.rejected, data |-> p.data,
                       failed |-> response.throws, id |-> psFetch[k].id]]
  /\ psOrder' = Append(psOrder, k)
  /\ UNCHANGED <<call, rateRequests>>
  /\ UNCHANGED <<bookings, result, pc, wired, now, telFetch, mapFetch, workouts, log,
               thrown>>

\* one telemetry request settles, lines 654-659
TelemetrySettle(k, response) ==
  /\ pc = "fanout"
  /\ k \in 1..Len(telFetch)
  /\ ~telFetch[k].settled
  /\ LET p == telemetryTask(telFetch[k].id, response)
     IN telFetch' = [telFetch EXCEPT ![k] =
                       [settled |-> TRUE, rejected |-> p.rejected, data |-> p.data,
                        failed |-> response.throws, id |-> telFetch[k].id]]
  /\ UNCHANGED <<call, rateRequests>>
  /\ UNCHANGED <<bookings, result, pc, wired, now, psFetch, mapFetch, psOrder, workouts,
               log, thrown>>

\* the class-uuid mapping request settles, lines 610-631
MappingSettle(response) ==
  /\ pc = "fanout"
  /\ ~mapFetch.settled
  /\ mapFetch' = [settled |-> TRUE, rejected |-> FALSE,
                  data |-> getPerformanceSummaryToClassUuidMapping(RequestedIds, response)]
  /\ UNCHANGED <<call, rateRequests>>
  /\ UNCHANGED <<bookings, result, pc, wired, now, psFetch, telFetch, psOrder, workouts,
               log, thrown>>

AllSettled ==
  /\ \A k \in 1..Len(psFetch) : psFetch[k].settled
  /\ \A k \in 1..Len(telFetch) : telFetch[k].settled
  /\ mapFetch.settled

AnyRejected ==
  \/ \E k \in 1..Len(psFetch) : psFetch[k].rejected
  \/ \E k \in 1..Len(telFetch) : telFetch[k].rejected
  \/ mapFetch.rejected

\* Promise.all of the three fan-outs resolves, lines 756-762, and the
\* assembly loop runs, lines 764-803; a rejection is rethrown, lines 804-810
FanIn ==
  /\ pc = "fanout"
  /\ AllSettled
  /\ IF AnyRejected
     THEN /\ pc' = "rejected"
          /\ thrown' = "FetchError"
          /\ log' = Append(log, Logged("getWorkouts error", "FetchError"))
          /\ UNCHANGED workouts
     ELSE /\ workouts' = workoutsFrom(Candidates, 1, <<>>,
                                      summariesOf(RequestedIds, psFetch),
                                      telemetryOf(RequestedIds, telFetch),
                                      mapFetch.data)
          /\ log' = log \o warningsFrom(Candidates, 1,
                                        summariesOf(RequestedIds, psFetch),
                                        telemetryOf(RequestedIds, telFetch))
          /\ pc' = "resolved"
          /\ UNCHANGED thrown
  /\ UNCHANGED <<call, rateRequests>>
  /\ UNCHANGED <<bookings, result, wired, now, psFetch, telFetch, mapFetch, psOrder>>

NextWorkouts ==
  \/ GetWorkouts
  \/ \E ok \in BOOLEAN, t \in NowTimes : BookingsSettle(ok, t)
  \/ \E k \in 1..MaxFetched, response \in PerfResponses : PerfSummarySettle(k, response)
  \/ \E k \in 1..MaxFetched, response \in TelemetryResponses : TelemetrySettle(k, response)
  \/ \E response \in MappingResponses : MappingSettle(response)
  \/ FanIn

SpecWorkouts == InitWorkouts /\ [][NextWorkouts]_vars

\* the items of a response in which the class start time of some booking
\* does not parse
StartItems ==
  {<<c, s, u, 1, "Booked", TRUE>> : c \in {1, 2}, s \in {Garbage, 1}, u \in {1, 2}}

InitStarts ==
  /\ \E n \in 0..MaxFetched : \E items \in [1..n -> StartItems] :
        bookings = transformAll(items)
  /\ result = <<>>
  /\ pc = "idle"
  /\ wired \in {"none", "BookingsApi"}
  /\ now = 0
  /\ psFetch = <<>>
  /\ telFetch = <<>>
  /\ mapFetch = Pending
  /\ psOrder = <<>>
  /\ workouts = <<>>
  /\ log = <<>>
  /\ thrown = "none"
  /\ call = NoCall
  /\ rateRequests = <<>>

SpecStarts == InitStarts /\ [][NextWorkouts]_vars

\* response.items.map(transformBookingData), part_001:174, of items whose
\* sixth part is the identifier of the workout as the server sent it
\* (data.workout.performanceSummaryId || data.workout.id, part_001:240)
transformGiven(items) ==
  [i \in 1..Len(items) |->
     BookingV2(i, items[i][1], items[i][2], items[i][3], items[i][4], items[i][5],
               items[i][6])]

\* the items of a response in which the workouts of two bookings may have
\* one identifier
SharedItems ==
  {<<c, 1, 1, 1, "Booked", p>> : c \in {1, 2}, p \in {1, 2}}

InitShared ==
  /\ \E n \in 0..MaxFetched : \E items \in [1..n -> SharedItems] :
        bookings = transformGiven(items)
  /\ result = <<>>
  /\ pc = "idle"
  /\ wired \in {"none", "BookingsApi"}
  /\ now = 0
  /\ psFetch = <<>>
  /\ telFetch = <<>>
  /\ mapFetch = Pending
  /\ psOrder = <<>>
  /\ workouts = <<>>
  /\ log = <<>>
  /\ thrown = "none"
  /\ call = NoCall
  /\ rateRequests = <<>>

SpecShared == InitShared /\ [][NextWorkouts]_vars

\* ------------------------------------------- a collaborator of any kind

\* an element of the list an object given to setOtfInstance (line 287)
\* returns: null, a booking without otf_class, or a booking with a class;
\* the workout of the i-th element has the identifier i
StubBooking(id, kind, startsAt, hasWorkout) ==
  [exists |-> kind # "null",
   booking_id |-> IF kind = "null" THEN 0 ELSE id,
   status |-> "Booked",
   otf_class |-> [exists |-> kind = "class",
                  class_id |-> IF kind = "class" THEN id ELSE 0,
                  starts_at |-> IF kind = "class" THEN startsAt ELSE NullStr],
   workout |-> [exists |-> hasWorkout,
                performance_summary_id |-> IF hasWorkout THEN id ELSE 0],
   created_at |-> 1,
   updated_at |-> 1]

StubItems ==
  {<<"null", NullStr, FALSE>>} \cup
  {<<"noclass", NullStr, w>> : w \in BOOLEAN} \cup
  {<<"class", 1, TRUE>>, <<"class", NullStr, FALSE>>}

InitStub ==
  /\ \E n \in 0..MaxFetched : \E items \in [1..n -> StubItems] :
        bookings = [i \in 1..n |->
                      StubBooking(i, items[i][1], items[i][2], items[i][3])]
  /\ result = <<>>
  /\ pc = "idle"
  /\ wired = "stub"
  /\ now = 0
  /\ psFetch = <<>>
  /\ telFetch = <<>>
  /\ mapFetch = Pending
  /\ psOrder = <<>>
  /\ workouts = <<>>
  /\ log = <<>>
  /\ thrown = "none"
  /\ call = NoCall
  /\ rateRequests = <<>>

\* getWorkoutFromBooking for the k-th booking the collaborator knows, lines
\* 1011-1030: what the call leaves behind; result is the booking getBookingNew
\* resolved to; pc tells whether the call threw before assembleWorkout
\* ("notAssembled"), in it ("assembleThrew") or not at all ("assembled")
getWorkoutFromBooking(k, psResponse, telResponse) ==
  LET bookingData == bookings[k]
      id == bookingData.workout.performance_summary_id
      performanceSummary == getPerformanceSummary(id, psResponse)
      telemetry == getTelemetry(id, telResponse)
  IN IF wired = "none"
     THEN [pc |-> "notAssembled", thrown |-> "BookingsApi not available",
           result |-> result, workouts |-> workouts]
     ELSE IF ~bookingData.exists
     THEN [pc |-> "notAssembled", thrown |-> "TypeError",
           result |-> <<bookingData>>, workouts |-> workouts]
     ELSE IF ~bookingData.workout.exists \/ id = 0
     THEN [pc |-> "notAssembled", thrown |-> "Workout not found",
           result |-> <<bookingData>>, workouts |-> workouts]
     ELSE IF telemetry.rejected
     THEN [pc |-> "notAssembled", thrown |-> "FetchError",
           result |-> <<bookingData>>, workouts |-> workouts]
     ELSE IF assembleThrows(bookingData, performanceSummary.data, telemetry.data)
     THEN [pc |-> "assembleThrew",
           thrown |-> assembleError(bookingData, performanceSummary.data,
                                    telemetry.data),
           result |-> <<bookingData>>, workouts |-> workouts]
     ELSE [pc |-> "assembled", thrown |-> thrown,
           result |-> <<bookingData>>,
           workouts |-> <<assembleWorkout(bookingData, performanceSummary.data,
                                          telemetry.data, 0)>>]

\* a call of getWorkoutFromBooking, lines 1011-1030
GetWorkoutFromBooking(k, psResponse, telResponse) ==
  /\ pc = "idle"
  /\ k \in 1..Len(bookings)
  /\ LET returned == getWorkoutFromBooking(k, psResponse, telResponse)
     IN /\ pc' = returned.pc
        /\ thrown' = returned.thrown
        /\ result' = returned.result
        /\ workouts' = returned.workouts
  /\ UNCHANGED <<call, rateRequests>>
  /\ UNCHANGED <<bookings, wired, now, psFetch, telFetch, mapFetch, psOrder, log>>

NextStub ==
  \/ NextWorkouts
  \/ \E k \in 1..MaxFetched, psResponse \in PerfResponses,
        telResponse \in TelemetryResponses :
       GetWorkoutFromBooking(k, psResponse, telResponse)

SpecStub == InitStub /\ [][NextStub]_vars

\* ------------------------------------------------- rateClassFromWorkout

\* the bookings the collaborator knows when a workout is rated
RateItems == {<<"class", 1, TRUE>>, <<"noclass", NullStr, FALSE>>}

\* the workouts given to rateClassFromWorkout for the k-th booking: ratable
\* or not, with a class_uuid or without, with ratings that are null, absent
\* (Undefined) or given
RateWorkouts(k) ==
  {[booking_id |-> k, performance_summary_id |-> k, ratable |-> ratable,
    class_uuid |-> classUuid, class_rating |-> classRating,
    coach_rating |-> coachRating] :
     ratable \in BOOLEAN, classUuid \in {Undefined, classUuidOf(k)},
     classRating \in {Null, Undefined, 2}, coachRating \in {Null, 3}}

\* the class rating and the coach rating given with the workout
Ratings == {<<3, 2>>}

InitRate ==
  /\ \E n \in 1..MaxFetched : \E items \in [1..n -> RateItems] :
        bookings = [i \in 1..n |->
                      StubBooking(i, items[i][1], items[i][2], items[i][3])]
  /\ result = <<>>
  /\ pc = "idle"
  /\ wired \in {"none", "stub"}
  /\ now = 0
  /\ psFetch = <<>>
  /\ telFetch = <<>>
  /\ mapFetch = Pending
  /\ psOrder = <<>>
  /\ workouts = <<>>
  /\ log = <<>>
  /\ thrown = "none"
  /\ call = NoCall
  /\ rateRequests = <<>>

\* the tests of rateClassFromWorkout with the test of the ratings left out
rateErrorUnrated(workout) ==
  IF ~workout.ratable \/ workout.class_uuid = Undefined THEN "is not rateable"
  ELSE IF wired = "none" THEN "BookingsApi not available"
  ELSE "none"

\* the tests of rateClassFromWorkout, lines 1045-1055: the message of the
\* Error thrown, "none" if none is
rateError(workout) ==
  IF ~workout.ratable \/ workout.class_uuid = Undefined THEN "is not rateable"
  ELSE IF workout.class_rating # Null \/ workout.coach_rating # Null
       THEN "already rated"
  ELSE IF wired = "none" THEN "BookingsApi not available"
  ELSE "none"

\* rateClassFromWorkout up to its await, lines 1040-1062: it throws, or it
\* sends the request to bookings.rateClass; a request is kept with the
\* workout it was sent for
RateClassFromWorkout(workout, classRating, coachRating) ==
  /\ pc \notin {"bookings", "fanout", "rating"}
  /\ workout.booking_id \in 1..Len(bookings)
  /\ rateError(workout) = "none" => Len(rateRequests) < MaxRatings
  /\ call' = [fn |-> "rateClassFromWorkout", returned |-> rateError(workout) # "none",
              workout |-> workout, classRating |-> classRating,
              coachRating |-> coachRating, requestsBefore |-> rateRequests]
  /\ IF rateError(workout) # "none"
     THEN /\ thrown' = rateError(workout)
          /\ pc' = "rateRejected"
          /\ UNCHANGED rateRequests
     ELSE /\ rateRequests' =
               Append(rateRequests,
                      [class_uuid |-> workout.class_uuid,
                       performance_summary_id |-> workout.performance_summary_id,
                       classRating |-> classRating, coachRating |-> coachRating,
                       workout |-> workout])
          /\ thrown' = "none"
          /\ pc' = "rating"
  /\ UNCHANGED <<bookings, result, wired, now, psFetch, telFetch, mapFetch, psOrder,
                 workouts, log>>

\* the request to bookings.rateClass settles, line 1057: a rejection is the
\* call's; else the call goes on with getWorkoutFromBooking, line 1064
RateClassSettle(ok, psResponse, telResponse) ==
  /\ pc = "rating"
  /\ LET returned == getWorkoutFromBooking(call.workout.booking_id, psResponse,
                                           telResponse)
     IN IF ok
        THEN /\ pc' = returned.pc
             /\ thrown' = returned.thrown
             /\ result' = returned.result
             /\ workouts' = returned.workouts
        ELSE /\ pc' = "rateFailed"
             /\ thrown' = "FetchError"
             /\ UNCHANGED <<result, workouts>>
  /\ call' = [call EXCEPT !.returned = TRUE]
  /\ UNCHANGED <<bookings, wired, now, psFetch, telFetch, mapFetch, psOrder, log,
                 rateRequests>>

NextRate ==
  \/ \E k \in 1..MaxFetched : \E workout \in RateWorkouts(k), rating \in Ratings :
       RateClassFromWorkout(workout, rating[1], rating[2])
  \/ \E ok \in BOOLEAN, psResponse \in PerfResponses,
        telResponse \in TelemetryResponses :
       RateClassSettle(ok, psResponse, telResponse)

SpecRate == InitRate /\ [][NextRate]_vars

\* ------------------------------------------ the helpers of assembleWorkout

\* the heart-rate blocks given to enhanceHeartRateWithTelemetry: none, and
\* blocks without max_hr, with max_hr 0 and with a max_hr
HeartRates ==
  {NullHeartRate} \cup {HeartRate(m, p, 150) : m \in {Undefined, 0, 175},
                                               p \in {180, 185}}

\* the telemetry given to it: none, an object with maxHr (absent, 0 or a
\* maximum), and the object getTelemetry returns, which has max_hr instead
HeartRateTelemetries ==
  {NullTelemetry} \cup
  {Telemetry("object", 7, m, <<>>) : m \in {Undefined, 0, 195}} \cup
  {getTelemetry(7, [throws |-> FALSE, maxHr |-> 190, badStamp |-> FALSE]).data}

\* the samples of a telemetry array, with and without relative_timestamp
Samples == {Sample(r, h) : r \in {Undefined, 0, 300, NaN}, h \in {120, 150}}

SampleArrays == UNION {[1..n -> Samples] : n \in 0..MaxSamples}

\* the telemetry given to enhanceTelemetryWithTimestamps: none, an object
\* without an array, an array, and an object with an array, with and without
\* classHistoryUuid
TimestampTelemetries ==
  {NullTelemetry, Telemetry("noarray", 7, 195, <<>>)} \cup
  {Telemetry("array", 0, Undefined, a) : a \in SampleArrays} \cup
  {Telemetry("object", u, 195, a) : u \in {0, 7}, a \in SampleArrays}

\* the class start times given to it, in milliseconds: none, a string that
\* does not parse, 10:00:00 and 10:00:00.500
ClassStartTimes == {NullStr, Garbage, 36000000, 36000500}

InitEnhance ==
  /\ bookings = <<>>
  /\ result = <<>>
  /\ pc = "idle"
  /\ wired = "none"
  /\ now = 0
  /\ psFetch = <<>>
  /\ telFetch = <<>>
  /\ mapFetch = Pending
  /\ psOrder = <<>>
  /\ workouts = <<>>
  /\ log = <<>>
  /\ thrown = "none"
  /\ rateRequests = <<>>
  /\ \/ \E heartRate \in HeartRates, telemetry \in HeartRateTelemetries :
          call = [fn |-> "enhanceHeartRateWithTelemetry", returned |-> FALSE,
                  heartRate |-> heartRate, telemetry |-> telemetry]
     \/ \E telemetry \in TimestampTelemetries, classStartTime \in ClassStartTimes :
          call = [fn |-> "enhanceTelemetryWithTimestamps", returned |-> FALSE,
                  telemetry |-> telemetry, classStartTime |-> classStartTime]

\* the call of enhanceHeartRateWithTelemetry, lines 894-908: what it was
\* given, what it returns and the block it was given after the call
EnhanceHeartRateWithTelemetry ==
  /\ call.fn = "enhanceHeartRateWithTelemetry"
  /\ ~call.returned
  /\ call' = [fn |-> call.fn, returned |-> TRUE,
              given |-> call.heartRate,
              heartRate |-> heartRateAfterEnhance(call.heartRate, call.telemetry),
              telemetry |-> call.telemetry,
              value |-> enhanceHeartRateWithTelemetry(call.heartRate,
                                                      call.telemetry)]
  /\ UNCHANGED <<bookings, result, pc, wired, now, psFetch, telFetch, mapFetch,
                 psOrder, workouts, log, thrown, rateRequests>>

\* the call of enhanceTelemetryWithTimestamps, lines 918-963
EnhanceTelemetryWithTimestamps ==
  /\ call.fn = "enhanceTelemetryWithTimestamps"
  /\ ~call.returned
  /\ call' = IF timestampsThrow(call.telemetry, call.classStartTime)
             THEN [fn |-> call.fn, returned |-> TRUE, threw |-> "RangeError",
                   telemetry |-> call.telemetry,
                   classStartTime |-> call.classStartTime]
             ELSE [fn |-> call.fn, returned |-> TRUE, threw |-> "none",
                   telemetry |-> call.telemetry,
                   classStartTime |-> call.classStartTime,
                   value |-> enhanceTelemetryWithTimestamps(call.telemetry,
                                                            call.classStartTime)]
  /\ UNCHANGED <<bookings, result, pc, wired, now, psFetch, telFetch, mapFetch,
                 psOrder, workouts, log, thrown, rateRequests>>

NextEnhance ==
  \/ EnhanceHeartRateWithTelemetry
  \/ EnhanceTelemetryWithTimestamps

SpecEnhance == InitEnhance /\ [][NextEnhance]_vars

\* ------------------------------------------------------------- claims

Deduplicated == pc = "deduplicated"

InputOfClass(c) == {i \in 1..Len(bookings) : bookings[i].otf_class.class_id = c}

OutputOfClass(c) == {k \in 1..Len(result) : result[k].otf_class.class_id = c}

InputClassIds == {bookings[i].otf_class.class_id : i \in 1..Len(bookings)} \ {0}

\* a timestamp string that parses to an instant after the epoch
ValidStamp(d) == d > 0

\* C1: every class identity of the input has exactly one booking in the
\* output of deduplicateBookings, and that booking is one of the input
\* bookings of the class; a class never loses its booking to another class.
C1_OnePerClass ==
  Deduplicated =>
    \A c \in InputClassIds :
      /\ Cardinality(OutputOfClass(c)) = 1
      /\ \A k \in OutputOfClass(c) : \E i \in InputOfClass(c) : result[k] = bookings[i]

C1_Witness ==
  /\ Deduplicated
  /\ Len(bookings) = 3
  /\ bookings[1].otf_class.class_id = 1
  /\ bookings[2].otf_class.class_id = 2
  /\ bookings[3].otf_class.class_id = 1
  /\ Len(result) = 2

\* the key of the claim: (startsAtSeconds, -updatedAtSeconds, -createdAtSeconds,
\* statusPriority), the start 0 when absent, a bad timestamp infinitely late,
\* the rank Booked=0 ... Cancel Checkin Requested=12, 999 otherwise
ClaimRank(status) ==
  LET table == <<"Booked", "Confirmed", "Waitlisted", "Pending", "Requested",
                 "Checked In", "Checkin Pending", "Checkin Requested",
                 "Checkin Cancelled", "Cancelled", "Late Cancelled",
                 "Cancel Checkin Pending", "Cancel Checkin Requested">>
  IN IF \E r \in 1..Len(table) : table[r] = status
     THEN (CHOOSE r \in 1..Len(table) : table[r] = status) - 1
     ELSE 999

ClaimSeconds(d) == IF ValidStamp(d) THEN d ELSE Infinity

ClaimKey(b) ==
  <<IF b.otf_class.starts_at = NullStr THEN 0 ELSE b.otf_class.starts_at,
    0 - ClaimSeconds(b.updated_at), 0 - ClaimSeconds(b.created_at),
    ClaimRank(b.status)>>

\* ascending left-to-right lexicographic order of two keys
LexLeq(x, y) ==
  \/ x = y
  \/ \E i \in 1..Len(x) : x[i] < y[i] /\ \A j \in 1..(i - 1) : x[j] = y[j]

\* C2: the booking kept for a class is a minimum of the class's input
\* bookings under the lexicographic order of the claim's key.
C2_KeptIsMinimum ==
  Deduplicated =>
    \A k \in 1..Len(result) :
      \A i \in InputOfClass(result[k].otf_class.class_id) :
        LexLeq(ClaimKey(result[k]), ClaimKey(bookings[i]))

C2_Witness ==
  /\ Deduplicated
  /\ Len(bookings) = 3
  /\ Len(result) = 1
  /\ result[1] = bookings[3]
  /\ ClaimKey(bookings[1])[1] = ClaimKey(bookings[3])[1]
  /\ ClaimKey(bookings[2])[2] = ClaimKey(bookings[3])[2]
  /\ ClaimKey(bookings[1]) # ClaimKey(bookings[3])
  /\ ClaimKey(bookings[2]) # ClaimKey(bookings[3])
  /\ bookings[3].status = "Unlisted"

\* C3 (as claimed): of two bookings that are the only ones of their class and
\* agree in status and start time, one with a valid updated_at and one with an
\* unparsable, absent or epoch-zero updated_at, the one with the bad updated_at
\* is never the booking kept.
C3_BadStampNeverKept ==
  Deduplicated =>
    \A i, j \in 1..Len(bookings) :
      ( /\ i # j
        /\ bookings[i].otf_class.class_id # 0
        /\ InputOfClass(bookings[i].otf_class.class_id) = {i, j}
        /\ bookings[i].status = bookings[j].status
        /\ bookings[i].otf_class.starts_at = bookings[j].otf_class.starts_at
        /\ ValidStamp(bookings[i].updated_at)
        /\ ~ValidStamp(bookings[j].updated_at) )
      => \A k \in 1..Len(result) : result[k].booking_id # j

\* getWorkouts has resolved with its list of workouts
Resolved == pc = "resolved"

\* getWorkouts has resolved after a fan-out whose requests all settled
ResolvedAfterFanOut == pc = "resolved" /\ Len(psFetch) > 0 /\ AllSettled

\* the request index of candidate k's performance summary (0: none issued)
RequestOf(k) ==
  IF Candidates[k].perfSummaryId = 0 THEN 0
  ELSE CHOOSE r \in 1..Len(RequestedIds) : RequestedIds[r] = Candidates[k].perfSummaryId

\* the workouts returned for a booking
WorkoutsOf(bookingId) == SelectSeq(workouts, LAMBDA w : w.booking_id = bookingId)

\* C4: no workout of a resolved getWorkouts call has calories_burned present
\* and below 100, and the drop is getWorkouts' own: for a candidate whose
\* summary came with fewer than 100 calories, the workout assembleWorkout
\* returns has those calories, and getWorkouts returns none for the booking.
C4_CalorieFloor ==
  /\ Resolved =>
       \A i \in 1..Len(workouts) :
         workouts[i].calories_burned = Undefined \/ workouts[i].calories_burned >= 100
  /\ ResolvedAfterFanOut =>
       \A k \in 1..Len(Candidates) :
         ( /\ RequestOf(k) # 0
           /\ ~psFetch[RequestOf(k)].data.isNull
           /\ psFetch[RequestOf(k)].data.calories_burned < 100
           /\ ~assembleThrows(Candidates[k].booking, psFetch[RequestOf(k)].data,
                              telFetch[RequestOf(k)].data) )
         => /\ assembleWorkout(Candidates[k].booking, psFetch[RequestOf(k)].data,
                               telFetch[RequestOf(k)].data,
                               classUuidFor(Candidates[k].perfSummaryId, mapFetch.data)
                              ).calories_burned
                 = psFetch[RequestOf(k)].data.calories_burned
            /\ WorkoutsOf(Candidates[k].booking.booking_id) = <<>>

\* a call resolved with one workout of 100 calories, and with a candidate of
\* 99 calories left out
C4_Witness ==
  /\ ResolvedAfterFanOut
  /\ \E i \in 1..Len(workouts) : workouts[i].calories_burned = 100
  /\ \E k \in 1..Len(Candidates) :
       /\ RequestOf(k) # 0
       /\ ~psFetch[RequestOf(k)].data.isNull
       /\ psFetch[RequestOf(k)].data.calories_burned = 99

\* the candidates whose performance-summary fetch failed
FailedCandidates ==
  {k \in 1..Len(Candidates) : RequestOf(k) # 0 /\ psFetch[RequestOf(k)].data.isNull}

\* the fan-out's summaries had the failed fetches answered with c calories
summariesHad(c) ==
  [r \in 1..Len(psFetch) |->
     IF psFetch[r].data.isNull
     THEN [settled |-> TRUE, rejected |-> FALSE,
           data |-> [isNull |-> FALSE, performance_summary_id |-> RequestedIds[r],
                     calories_burned |-> c,
                     heart_rate |-> HeartRate(Undefined, 185, 150)]]
     ELSE psFetch[r]]

\* the workouts getWorkouts would have returned with those summaries
workoutsHad(c) ==
  workoutsFrom(Candidates, 1, <<>>, summariesOf(RequestedIds, summariesHad(c)),
               telemetryOf(RequestedIds, telFetch), mapFetch.data)

\* C5: getWorkouts never rejects; when one candidate's performance-summary
\* fetch failed, the others' succeeded and every telemetry that arrived is
\* well formed, the workouts of the other
\* candidates are those of the call in which no fetch failed, and the failing
\* booking has one workout, assembled from an empty performance summary.
C5_PartialFailure ==
  /\ pc # "rejected"
  /\ ( /\ ResolvedAfterFanOut
       /\ Cardinality(FailedCandidates) = 1
       /\ \A r \in 1..Len(telFetch) : ~telFetch[r].data.badStamp ) =>
       \A k \in 1..Len(Candidates) :
         LET item == Candidates[k]
             id == item.booking.booking_id
         IN IF k \in FailedCandidates
            THEN WorkoutsOf(id) =
                   <<assembleWorkout(item.booking, EmptySummary,
                                     telFetch[RequestOf(k)].data,
                                     classUuidFor(item.perfSummaryId, mapFetch.data))>>
            ELSE \A c \in {99, 100} :
                   WorkoutsOf(id) =
                     SelectSeq(workoutsHad(c), LAMBDA w : w.booking_id = id)

\* two candidates with a fetch each: one fetch failed, the other succeeded
\* and its workout is returned
C5_Witness ==
  /\ ResolvedAfterFanOut
  /\ \A r \in 1..Len(telFetch) : ~telFetch[r].data.badStamp
  /\ Len(psFetch) = 2
  /\ Cardinality(FailedCandidates) = 1
  /\ Len(workouts) = 2

\* the place of a booking in the deduplicated, sorted list
PlaceOf(bookingId) == CHOOSE p \in 1..Len(result) : result[p].booking_id = bookingId

\* C6: whatever the order in which the requests of the fan-out settle, the
\* workouts of a resolved call are in the order their bookings have in the
\* deduplicated list, which is ascending in class start time.
C6_OrderKept ==
  Resolved =>
    /\ \A i \in 1..Len(workouts) :
         \E p \in 1..Len(result) : result[p].booking_id = workouts[i].booking_id
    /\ \A i, j \in 1..Len(workouts) :
         i < j =>
           /\ PlaceOf(workouts[i].booking_id) < PlaceOf(workouts[j].booking_id)
           /\ ( /\ workouts[i].otf_class.starts_at # NullStr
                /\ workouts[j].otf_class.starts_at # NullStr )
              => workouts[i].otf_class.starts_at <= workouts[j].otf_class.starts_at

\* two workouts returned after the second summary request settled first
C6_Witness ==
  /\ ResolvedAfterFanOut
  /\ Len(workouts) = 2
  /\ psOrder = <<2, 1>>
  /\ workouts[1].otf_class.starts_at # workouts[2].otf_class.starts_at

\* C7 (as claimed): every input booking without a class identity is still in
\* the deduplicated output.
C7_NoClassRetained ==
  Deduplicated =>
    \A i \in InputOfClass(0) : \E k \in 1..Len(result) : result[k] = bookings[i]

\* C7 (amended): a booking without a class identity takes no part in
\* grouping and is dropped: none of them is in the output, and the output is
\* the one deduplication gives for the input without them.
C7_NoClassDropped ==
  Deduplicated =>
    /\ \A i \in InputOfClass(0) : \A k \in 1..Len(result) :
         result[k].booking_id # bookings[i].booking_id
    /\ result = deduplicateBookings(
                  SelectSeq(bookings, LAMBDA b : b.otf_class.class_id # 0))

C7_Witness ==
  /\ Deduplicated
  /\ Len(bookings) = 3
  /\ bookings[2].otf_class.class_id = 0
  /\ bookings[1].otf_class.class_id = 1
  /\ bookings[3].otf_class.class_id = 1
  /\ Len(result) = 1

\* C8: the result of getBookingsNew with removeDuplicates has no booking
\* that lacks a class_id; of one booking without class_id followed by one with
\* a class_id, only the latter is returned.
C8_NoClassSkipped ==
  Deduplicated =>
    /\ \A k \in 1..Len(result) : result[k].otf_class.class_id # 0
    /\ ( /\ Len(bookings) = 2
         /\ Cardinality(InputOfClass(0)) = 1 )
       => \E i \in 1..2 : bookings[i].otf_class.class_id # 0 /\ result = <<bookings[i]>>

C8_Witness ==
  /\ Deduplicated
  /\ Len(bookings) = 2
  /\ bookings[1].otf_class.class_id = 0
  /\ bookings[2].otf_class.class_id # 0
  /\ result = <<bookings[2]>>

\* two bookings, the only ones of their class, with one status and parsable
\* updated_at stamps, i the one updated later
TwoOfOneClass(i, j) ==
  /\ i # j
  /\ bookings[i].otf_class.class_id # 0
  /\ InputOfClass(bookings[i].otf_class.class_id) = {i, j}
  /\ bookings[i].status = bookings[j].status
  /\ ValidStamp(bookings[i].updated_at)
  /\ ValidStamp(bookings[j].updated_at)
  /\ bookings[i].updated_at > bookings[j].updated_at

KeptOfClassIs(i) ==
  \A k \in OutputOfClass(bookings[i].otf_class.class_id) :
    result[k].booking_id = i

\* C9 (as claimed): of two bookings of one class with one status, the one
\* with the later updated_at is kept, whatever their created_at.
C9_LaterUpdateKept ==
  Deduplicated =>
    \A i, j \in 1..Len(bookings) : TwoOfOneClass(i, j) => KeptOfClassIs(i)

\* C9 (amended): of two bookings of one class with one status and one class
\* start time, the one with the later updated_at is kept, whatever their
\* created_at.
C9_LaterUpdateKeptSameStart ==
  Deduplicated =>
    \A i, j \in 1..Len(bookings) :
      ( /\ TwoOfOneClass(i, j)
        /\ bookings[i].otf_class.starts_at = bookings[j].otf_class.starts_at )
      => KeptOfClassIs(i)

C9_Witness ==
  /\ Deduplicated
  /\ Len(bookings) = 2
  /\ TwoOfOneClass(1, 2)
  /\ bookings[1].otf_class.starts_at = bookings[2].otf_class.starts_at
  /\ bookings[1].created_at < bookings[2].created_at
  /\ result = <<bookings[1]>>

\* C10: in a class whose bookings share one start time and all have a valid
\* updated_at, the booking with the strictly latest updated_at is the one
\* kept, whatever the status ranks.
C10_RankOnlyTieBreak ==
  Deduplicated =>
    \A c \in InputClassIds : \A m \in InputOfClass(c) :
      ( /\ \A i \in InputOfClass(c) :
             /\ bookings[i].otf_class.starts_at = bookings[m].otf_class.starts_at
             /\ ValidStamp(bookings[i].updated_at)
        /\ \A i \in InputOfClass(c) \ {m} :
             bookings[i].updated_at < bookings[m].updated_at )
      => KeptOfClassIs(m)

C10_Witness ==
  /\ Deduplicated
  /\ Len(bookings) = 3
  /\ bookings[1].status = "Cancelled"
  /\ bookings[2].status = "Booked"
  /\ bookings[3].status = "Waitlisted"
  /\ bookings[1].updated_at = 2
  /\ bookings[2].updated_at = 1
  /\ bookings[3].updated_at = 1
  /\ result = <<bookings[1]>>

\* the bookings of class c share start time, updated_at and created_at
SameStamps(c) ==
  \A i, j \in InputOfClass(c) :
    /\ bookings[i].otf_class.starts_at = bookings[j].otf_class.starts_at
    /\ bookings[i].updated_at = bookings[j].updated_at
    /\ bookings[i].created_at = bookings[j].created_at

\* C11: in a class whose bookings share start time, updated_at and
\* created_at, the booking kept has the lowest status rank of the class; of a
\* Waitlisted and a Booked booking, in either input order, Booked is kept.
C11_LowestRankKept ==
  Deduplicated =>
    \A c \in InputClassIds :
      SameStamps(c) =>
        \A k \in OutputOfClass(c) :
          /\ \A i \in InputOfClass(c) :
               ClaimRank(result[k].status) <= ClaimRank(bookings[i].status)
          /\ ( {bookings[i].status : i \in InputOfClass(c)} = {"Waitlisted", "Booked"} )
             => result[k].status = "Booked"

\* Waitlisted comes first in the input and Booked is kept
C11_Witness ==
  /\ Deduplicated
  /\ Len(bookings) = 2
  /\ SameStamps(1)
  /\ bookings[1].status = "Waitlisted"
  /\ bookings[2].status = "Booked"
  /\ result = <<bookings[2]>>

\* C12: the output of deduplicateBookings is ascending in class start time,
\* and no booking without a start time comes before one with a start time.
C12_SortedByStart ==
  Deduplicated =>
    \A i, j \in 1..Len(result) :
      i < j =>
        LET a == result[i].otf_class.starts_at
            b == result[j].otf_class.starts_at
        IN /\ (a # NullStr /\ b # NullStr) => a <= b
           /\ ~(a = NullStr /\ b # NullStr)

\* the input has the booking without start time first and the later start
\* before the earlier; the output has them ascending, the missing one last
C12_Witness ==
  /\ Deduplicated
  /\ Len(bookings) = 3
  /\ bookings[1].otf_class.starts_at = NullStr
  /\ bookings[2].otf_class.starts_at = 2
  /\ bookings[3].otf_class.starts_at = 1
  /\ result = <<bookings[3], bookings[2], bookings[1]>>

\* C13: deduplicateBookings applied to its own output returns that output.
C13_Idempotent ==
  Deduplicated => deduplicateBookings(result) = result

\* a first pass that removed a duplicate and left two classes with one start
C13_Witness ==
  /\ Deduplicated
  /\ Len(bookings) = 3
  /\ Len(result) = 2
  /\ result[1].otf_class.starts_at = result[2].otf_class.starts_at
  /\ deduplicateBookings(result) = result

\* getWorkouts has settled
Settled == pc \in {"resolved", "rejected"}

\* the assembly loop of the settled call has run
LoopRan == pc = "resolved" /\ wired # "none"

\* what the fan-out of the call resolved to ([{}, {}, {}] without requests)
Summaries == summariesOf(RequestedIds, psFetch)

Telemetries == telemetryOf(RequestedIds, telFetch)

Mapping == IF Len(psFetch) > 0 THEN mapFetch.data ELSE NoMapping

\* C14 (as claimed): an error raised in getWorkouts outside the tolerated
\* points reaches the caller: the call that met a null element in its filter
\* rejects with the TypeError, and the call in which assembleWorkout threw a
\* TypeError or RangeError for one booking rejects with that error.
C14_UnexpectedPropagates ==
  /\ (Settled /\ pastBookingsThrows(result)) =>
       pc = "rejected" /\ thrown = "TypeError"
  /\ (Settled /\ ~pastBookingsThrows(result)) =>
       \A k \in 1..Len(Candidates) :
         caughtError(Candidates[k], Summaries, Telemetries)
             \in {"TypeError", "RangeError"}
         => /\ pc = "rejected"
            /\ thrown = caughtError(Candidates[k], Summaries, Telemetries)

\* C15: a booking of the list without otf_class makes the loop throw the
\* validation error, which is logged; the call resolves without the booking,
\* with the workouts it returns for the list without the booking, and
\* nothing is thrown.
C15_ValidationSkipped ==
  LoopRan =>
    LET invalid == {k \in 1..Len(Candidates) : ~Candidates[k].booking.otf_class.exists}
        others == SelectSeq(Candidates, LAMBDA item : item.booking.otf_class.exists)
    IN /\ thrown = "none"
       /\ \A k \in invalid : WorkoutsOf(Candidates[k].booking.booking_id) = <<>>
       /\ Len(SelectSeq(log, LAMBDA l :
               l.error = "otf_class must be an instance of BookingV2Class"))
            = Cardinality(invalid)
       /\ workouts = workoutsFrom(others, 1, <<>>, Summaries, Telemetries, Mapping)

\* of two bookings the first has no otf_class and is skipped, the second
\* has its workout returned
C15_Witness ==
  /\ LoopRan
  /\ Len(Candidates) = 2
  /\ ~Candidates[1].booking.otf_class.exists
  /\ Candidates[1].perfSummaryId # 0
  /\ Candidates[2].booking.otf_class.exists
  /\ Len(workouts) = 1
  /\ workouts[1].booking_id = Candidates[2].booking.booking_id

\* C16 (as claimed): assembleWorkout fails for an absent booking with
\* 'booking is required' and for an absent otf_class with 'class information
\* missing', and for nothing else.
C16_AssemblerValidates ==
  /\ pc = "assembled" => result[1].exists /\ result[1].otf_class.exists
  /\ pc = "assembleThrew" =>
       \/ thrown = "booking is required" /\ ~result[1].exists
       \/ thrown = "class information missing" /\ result[1].exists
                                                /\ ~result[1].otf_class.exists

\* a class start time that is absent or not after now
IsPast(booking) ==
  booking.otf_class.starts_at = NullStr \/ booking.otf_class.starts_at <= now

\* C17: a fetched booking is a candidate of getWorkouts exactly if its class
\* start time is absent or not later than now: requests go out for exactly
\* the past bookings with a workout, a booking without workout has a workout
\* returned exactly if it is past, and no workout returned is of a booking
\* whose class starts after now.
C17_PastFilter ==
  /\ (pc \in {"fanout", "resolved"} /\ wired # "none") =>
       /\ \A p \in 1..Len(result) :
            (\E k \in 1..Len(Candidates) : Candidates[k].booking = result[p])
              <=> IsPast(result[p])
       /\ Len(psFetch) =
            Cardinality({p \in 1..Len(result) :
                           result[p].workout.exists /\ IsPast(result[p])})
  /\ LoopRan =>
       /\ \A p \in 1..Len(result) :
            ~result[p].workout.exists =>
              (WorkoutsOf(result[p].booking_id) # <<>> <=> IsPast(result[p]))
       /\ \A i \in 1..Len(workouts) :
            \E p \in 1..Len(result) :
              /\ result[p].booking_id = workouts[i].booking_id
              /\ IsPast(result[p])

\* a class that starts now has its workout returned, one that starts later
\* has not
C17_Witness ==
  /\ LoopRan
  /\ Len(result) = 2
  /\ result[1].otf_class.starts_at = now
  /\ result[2].otf_class.starts_at > now
  /\ Len(workouts) = 1
  /\ workouts[1].booking_id = result[1].booking_id

\* the collaborator's fetch failed
BookingsFetchFailed ==
  \E i \in 1..Len(log) : log[i].msg = "Failed to get bookings for workouts"

\* no request of the fan-out was issued
NoRequests == psFetch = <<>> /\ telFetch = <<>> /\ mapFetch = Pending

\* C18: without the collaborator, and after a failed fetch of the
\* collaborator, getWorkouts resolves to the empty list, throws nothing and
\* issues no performance-summary, telemetry or mapping request.
C18_EmptyWithoutBookings ==
  ( \/ wired = "none" /\ pc # "idle"
    \/ BookingsFetchFailed )
  => /\ pc = "resolved"
     /\ workouts = <<>>
     /\ thrown = "none"
     /\ NoRequests

\* the fetch of a collaborator that has two bookings failed
C18_Witness ==
  /\ BookingsFetchFailed
  /\ Len(bookings) = 2
  /\ pc = "resolved"
  /\ workouts = <<>>

\* every performance-summary request of the fan-out has settled
SummariesSettled ==
  /\ pc \in {"fanout", "resolved"}
  /\ Len(psFetch) > 0
  /\ \A r \in 1..Len(psFetch) : psFetch[r].settled

\* C19: getPerformanceSummariesConcurrent resolves whatever its requests
\* did, and its mapping has exactly the identifiers whose request did not
\* fail, each with its summary; a failed identifier has no key.
C19_SummariesOmitFailures ==
  SummariesSettled =>
    /\ \A r \in 1..Len(psFetch) : ~psFetch[r].rejected
    /\ DOMAIN Summaries =
         {RequestedIds[r] : r \in {q \in 1..Len(psFetch) : ~psFetch[q].failed}}
    /\ \A id \in DOMAIN Summaries :
         /\ ~Summaries[id].isNull
         /\ Summaries[id].performance_summary_id = id

\* of two requests one failed and one did not
C19_Witness ==
  /\ SummariesSettled
  /\ Len(psFetch) = 2
  /\ psFetch[1].failed
  /\ ~psFetch[2].failed
  /\ DOMAIN Summaries = {RequestedIds[2]}

\* every telemetry request of the fan-out has settled
TelemetriesSettled ==
  /\ pc \in {"fanout", "resolved"}
  /\ Len(telFetch) > 0
  /\ \A r \in 1..Len(telFetch) : telFetch[r].settled

\* C20: getTelemetryConcurrent resolves whatever its requests did, and its
\* mapping has every requested identifier; a failed identifier is mapped to
\* null.
C20_TelemetryKeepsFailures ==
  TelemetriesSettled =>
    /\ \A r \in 1..Len(telFetch) : ~telFetch[r].rejected
    /\ DOMAIN Telemetries = {RequestedIds[r] : r \in 1..Len(telFetch)}
    /\ \A r \in 1..Len(telFetch) :
         telFetch[r].failed => Telemetries[RequestedIds[r]].isNull

\* of two requests one failed and one did not
C20_Witness ==
  /\ TelemetriesSettled
  /\ Len(telFetch) = 2
  /\ telFetch[1].failed
  /\ ~telFetch[2].failed
  /\ DOMAIN Telemetries = {RequestedIds[1], RequestedIds[2]}
  /\ ~Telemetries[RequestedIds[2]].isNull

\* the booking a workout was assembled for
BookingOf(workout) == result[PlaceOf(workout.booking_id)]

\* the performance summary the fan-out obtained for a booking's identifier,
\* EmptySummary when it obtained none
SummaryObtained(booking) ==
  IF /\ booking.workout.exists
     /\ booking.workout.performance_summary_id \in DOMAIN Summaries
  THEN Summaries[booking.workout.performance_summary_id]
  ELSE EmptySummary

\* C21: in every workout getWorkouts returns, performance_summary_id and
\* class_history_uuid are equal and not empty: the identifier of the summary
\* obtained when it has one, else the identifier of the booking's embedded
\* workout, else 'unknown'.
C21_IdentifiersAgree ==
  LoopRan =>
    \A i \in 1..Len(workouts) :
      LET w == workouts[i]
          booking == BookingOf(w)
          summary == SummaryObtained(booking)
      IN /\ w.performance_summary_id = w.class_history_uuid
         /\ w.performance_summary_id # 0
         /\ w.performance_summary_id =
              IF summary.performance_summary_id # 0
              THEN summary.performance_summary_id
              ELSE IF booking.workout.exists
                   THEN booking.workout.performance_summary_id
                   ELSE Unknown

\* one call returned a workout named 'unknown' and a workout named after its
\* booking's embedded workout, the fetch of its summary having failed
C21_Witness ==
  /\ LoopRan
  /\ \E i, k \in 1..Len(workouts) :
       /\ workouts[i].performance_summary_id = Unknown
       /\ workouts[k].performance_summary_id # Unknown
       /\ SummaryObtained(BookingOf(workouts[k])).performance_summary_id = 0

\* the past bookings of the call in flight, in the order of the list
PastBookings == pastBookings(result, now)

\* the fan-out was decided: the call is past its booking request
FanOutDecided == pc \in {"fanout", "resolved"} /\ wired # "none"

\* C22: a candidate booking without a linked performance-summary identifier
\* is not discarded: it adds nothing to the identifiers of the fan-out, which
\* has one summary request and one telemetry request per candidate that has
\* one, and the call returns one workout for it, assembled from an empty
\* summary, null telemetry and no class uuid.
C22_NoIdStillAssembled ==
  FanOutDecided =>
    LET withId == {j \in 1..Len(PastBookings) : PastBookings[j].workout.exists}
    IN /\ Len(psFetch) = Cardinality(withId)
       /\ Len(telFetch) = Cardinality(withId)
       /\ \A r \in 1..Len(psFetch) : psFetch[r].id # 0 /\ telFetch[r].id # 0
       /\ \A k \in 1..Len(PastBookings) :
            (LoopRan /\ ~PastBookings[k].workout.exists) =>
              WorkoutsOf(PastBookings[k].booking_id) =
                <<assembleWorkout(PastBookings[k], EmptySummary, NullTelemetry, 0)>>

\* a call with one candidate that has an identifier and one that has none
\* returned a workout for the one that has none
C22_Witness ==
  /\ LoopRan
  /\ Len(psFetch) = 1
  /\ \E k \in 1..Len(PastBookings) :
       /\ ~PastBookings[k].workout.exists
       /\ Len(WorkoutsOf(PastBookings[k].booking_id)) = 1

\* C23: when no candidate booking carries a performance-summary identifier,
\* getWorkouts issues no performance-summary, telemetry or mapping request
\* and assembles every candidate from three empty mappings: an empty
\* summary, null telemetry and no class uuid.
C23_NoIdsNoRequests ==
  ( /\ FanOutDecided
    /\ \A k \in 1..Len(PastBookings) : ~PastBookings[k].workout.exists ) =>
    /\ psFetch = <<>> /\ telFetch = <<>> /\ mapFetch = Pending
    /\ pc = "resolved"
    /\ workouts =
         [k \in 1..Len(PastBookings) |->
            assembleWorkout(PastBookings[k], EmptySummary, NullTelemetry, 0)]

\* a call with two candidates, neither with an identifier, returned two
\* workouts
C23_Witness ==
  /\ FanOutDecided
  /\ Len(PastBookings) = 2
  /\ \A k \in 1..Len(PastBookings) : ~PastBookings[k].workout.exists
  /\ Len(workouts) = 2

\* C29 (as claimed): the candidates of getWorkouts, which the code gets by
\* deduplicating the fetched bookings and then keeping the past ones, are the
\* list, in the same order, that keeping the past ones first and
\* deduplicating afterwards gives.
C29_FilterDedupCommute ==
  (FanOutDecided /\ ~BookingsFetchFailed) =>
    PastBookings = deduplicateBookings(pastBookings(bookings, now))

\* the request of the fan-out made for a booking's identifier
OwnRequest(booking) ==
  CHOOSE r \in 1..Len(psFetch) :
    psFetch[r].id = booking.workout.performance_summary_id

\* C28: whatever order the fetches of the fan-out complete in, the workout
\* of a booking is made of the summary, the telemetry and the class uuid
\* that were obtained for the booking's own identifier, and of an empty
\* summary, null telemetry or no class uuid where none was obtained or the
\* booking has no identifier.
C28_JoinByOwnIdentifier ==
  LoopRan =>
    \A i \in 1..Len(workouts) :
      LET w == workouts[i]
          booking == BookingOf(w)
          id == booking.workout.performance_summary_id
      IN IF booking.workout.exists
         THEN LET r == OwnRequest(booking)
              IN /\ telFetch[r].id = id
                 /\ w.calories_burned = psFetch[r].data.calories_burned
                 /\ w.heart_rate.peak_hr = psFetch[r].data.heart_rate.peak_hr
                 /\ w.telemetry = telFetch[r].data
                 /\ w.class_uuid = IF id \in DOMAIN mapFetch.data
                                   THEN classUuidOf(id) ELSE Undefined
         ELSE /\ w.calories_burned = Undefined
              /\ w.telemetry = NullTelemetry
              /\ w.class_uuid = Undefined

\* two summary fetches settled in the reverse order of their requests, one
\* with a summary and one without, and two telemetry fetches, one with data
\* and one without; both workouts were returned
C28_Witness ==
  /\ LoopRan
  /\ psOrder = <<2, 1>>
  /\ Len(workouts) = 2
  /\ psFetch[1].data.isNull # psFetch[2].data.isNull
  /\ telFetch[1].data.isNull # telFetch[2].data.isNull

\* every candidate's identifier has exactly one request of each fan-out
OneRequestPerIdentifier ==
  \A k \in 1..Len(Candidates) :
    Candidates[k].perfSummaryId # 0 =>
      /\ Cardinality({r \in 1..Len(psFetch) :
                        psFetch[r].id = Candidates[k].perfSummaryId}) = 1
      /\ Cardinality({r \in 1..Len(telFetch) :
                        telFetch[r].id = Candidates[k].perfSummaryId}) = 1

\* a step leaves every request that has settled as it is
SettledOnce ==
  /\ \A r \in 1..Len(psFetch) : psFetch[r].settled => psFetch'[r] = psFetch[r]
  /\ \A r \in 1..Len(telFetch) : telFetch[r].settled => telFetch'[r] = telFetch[r]

\* C27 (as claimed): within one getWorkouts call every performance-summary
\* identifier of the candidates gets exactly one performance-summary fetch
\* and exactly one telemetry fetch, and a fetch that has settled, failed or
\* not, is never made again.
C27_OneFetchPerIdentifier ==
  [](FanOutDecided => OneRequestPerIdentifier) /\ [][SettledOnce]_vars

\* C26 (as claimed): in every workout getWorkouts returns for a booking whose
\* telemetry fetch succeeded with an observed maximum m that is not zero,
\* and whose summary has a heart-rate block, heart_rate.max_hr is m.
C26_MaxFromTelemetry ==
  LoopRan =>
    \A i \in 1..Len(workouts) :
      LET w == workouts[i]
          booking == BookingOf(w)
      IN ( /\ booking.workout.exists
           /\ ~telFetch[OwnRequest(booking)].data.isNull
           /\ telFetch[OwnRequest(booking)].data.max_hr # 0
           /\ ~w.heart_rate.isNull ) =>
           w.heart_rate.max_hr = telFetch[OwnRequest(booking)].data.max_hr

\* enhanceHeartRateWithTelemetry has returned
HeartRateEnhanced == call.fn = "enhanceHeartRateWithTelemetry" /\ call.returned

\* the telemetry of the call carries an observed maximum under the key the
\* helper reads
CarriesMaximum ==
  /\ ~call.telemetry.isNull
  /\ call.telemetry.maxHr # Undefined
  /\ call.telemetry.maxHr # 0

\* C24: enhanceHeartRateWithTelemetry returns a block whose max_hr is the
\* observed maximum of the telemetry when the telemetry carries one, whether
\* or not the summary had a max_hr, and the input's max_hr when the telemetry
\* or its maximum is absent; peak_hr, avg_hr and the percent fields are the
\* input's; a null or undefined block is returned as it is; the block given
\* is not modified.
C24_MaxFromTelemetryOnly ==
  HeartRateEnhanced =>
    /\ call.heartRate = call.given
    /\ IF call.given.isNull THEN call.value = call.given
       ELSE /\ ~call.value.isNull
            /\ call.value.max_hr = IF CarriesMaximum THEN call.telemetry.maxHr
                                   ELSE call.given.max_hr
            /\ call.value.peak_hr = call.given.peak_hr
            /\ call.value.avg_hr = call.given.avg_hr
            /\ call.value.peak_hr_percent = call.given.peak_hr_percent
            /\ call.value.avg_hr_percent = call.given.avg_hr_percent

\* the helper returned for a block that had a max_hr of its own and a
\* telemetry with another maximum
C24_Witness ==
  /\ HeartRateEnhanced
  /\ CarriesMaximum
  /\ call.given.max_hr = 175
  /\ call.value.max_hr = 195

\* enhanceTelemetryWithTimestamps has returned or thrown
TelemetryEnhanced == call.fn = "enhanceTelemetryWithTimestamps" /\ call.returned

\* the call returns its telemetry as it is: there is no telemetry, no class
\* start time or no array of samples
PassedThrough ==
  \/ call.telemetry.isNull
  \/ call.classStartTime = NullStr
  \/ ~call.telemetry.hasArray

\* some sample of the call has a relative_timestamp and no valid time: the
\* class start time does not parse, or the relative_timestamp is no number
\* of seconds a Date can hold
SomeInvalidTime ==
  \E i \in 1..Len(call.telemetry.telemetry) :
    /\ call.telemetry.telemetry[i].relative_timestamp # Undefined
    /\ \/ call.classStartTime = Garbage
       \/ call.telemetry.telemetry[i].relative_timestamp = NaN

Rateable(workout) ==
  /\ workout.ratable
  /\ workout.class_uuid # Undefined
  /\ workout.class_rating = Null
  /\ workout.coach_rating = Null

\* C30: rateClassFromWorkout sends a request to bookings.rateClass only for
\* a workout that is ratable, has a class_uuid and has both ratings null, and
\* then one request with the workout's class_uuid and identifier; for every
\* other workout it rejects with 'is not rateable' or 'already rated' and
\* sends nothing; so no request that was ever sent is for a workout that is
\* unratable or rated.
C30_RatesOnlyRateable ==
  /\ \A i \in 1..Len(rateRequests) : Rateable(rateRequests[i].workout)
  /\ call.fn = "rateClassFromWorkout" =>
       IF Rateable(call.workout)
       THEN \/ rateRequests = call.requestsBefore /\ wired = "none"
            \/ rateRequests =
                 Append(call.requestsBefore,
                        [class_uuid |-> call.workout.class_uuid,
                         performance_summary_id |->
                           call.workout.performance_summary_id,
                         classRating |-> call.classRating,
                         coachRating |-> call.coachRating,
                         workout |-> call.workout])
       ELSE /\ rateRequests = call.requestsBefore
            /\ pc = "rateRejected"
            /\ thrown \in {"is not rateable", "already rated"}

\* after a request was sent for a workout that may be rated, a call for a
\* workout with a rating was rejected
C30_Witness ==
  /\ Len(rateRequests) = 1
  /\ call.fn = "rateClassFromWorkout"
  /\ call.requestsBefore = rateRequests
  /\ call.workout.ratable
  /\ call.workout.class_uuid # Undefined
  /\ call.workout.class_rating = 2
  /\ thrown = "already rated"
====
